---- MODULE Spec2Model ----
(***************************************************************************)
(* microbeam (src/index.js): pattern-addressed RPC over push/pull sockets  *)
(* with an etcd-backed service directory.                                  *)
(*                                                                         *)
(* Two service instances, A and B, run the code of main().  Every callback *)
(* of the code (watch 'change', sock 'message', a handler's completion,    *)
(* the timeout sweep, a publish cycle, instance.send) is one action that   *)
(* runs to completion, as on the single-threaded event loop.               *)
(***************************************************************************)
EXTENDS Integers, Sequences, FiniteSets, TLC

VARIABLES
  handlers,   \* instance.handlers: the pattern strings registered by instance.on
  bloom,      \* local index (line 40): entries in insertion order
  gloBloom,   \* global index (line 41): entries in insertion order
  patterns,   \* directory (line 42): pattern string -> Map host -> address
  requests,   \* request table (line 43): request id -> expiresOn
  sockets,    \* connection pool (line 44): address -> push socket
  inbox,      \* frames queued on each instance's pull socket
  stuck,      \* frames sent on a push socket that no peer is connected to
  pendingH,   \* requests whose handler returned a promise that is still pending
  settle,     \* per request id: the calls made to its resolve/reject, in order
  issued,     \* per request id: who sent it, what, when
  watchq,     \* watch events etcd has not yet delivered to each instance
  pub,        \* publisher: cycle state, timers, calledUpdateYet, postInit timers
  now,        \* the clock, (new Date()).valueOf(), in ms since start
  foreign,    \* number of frames received from peers outside the model
  last        \* the callback that ran last: its input, what it sent and what it raised

vars == <<handlers, bloom, gloBloom, patterns, requests, sockets, inbox, stuck,
          pendingH, settle, issued, watchq, pub, now, foreign, last>>

----------------------------------------------------------------------------
(* Bounds of the model *)

MaxReq == 2        \* request ids handed out by genId
MaxLate == 1       \* the clock runs to TIMEOUT + MaxLate
MaxCycles == 2     \* publish cycles per instance
MaxHandlers == 2   \* handlers registered per instance
MaxForeign == 2    \* frames from peers outside the model
MaxInbox == 2      \* frames queued on one pull socket
MaxIndex == 3      \* entries of one global index

(* Program constants *)

TIMEOUT == 5000    \* line 72
SWEEP == 25        \* line 176

----------------------------------------------------------------------------
(* The instances, their ids (genId, line 31) and their inbound urls (line 30) *)

Proc == {"A", "B"}
url(p) == IF p = "A" THEN "tcp://hostA:1" ELSE "tcp://hostB:1"
Hosts == Proc
Addrs == {url(p) : p \in Proc}

----------------------------------------------------------------------------
(* Patterns.  A pattern string is what appears in an etcd key or is passed *)
(* to instance.on: jsonic text, with or without the outer braces, listing  *)
(* key:value fields.  sonic() parses it to an object (a set of fields);    *)
(* sonic.stringify() prints an object in the one braced form.              *)

KeyOrder == <<"a", "b", "c">>

Str(braces, fields) == [braces |-> braces, fields |-> fields]

sonic(s) == {s.fields[i] : i \in DOMAIN s.fields}

RECURSIVE FieldsFrom(_, _)
FieldsFrom(o, i) ==
  IF i > Len(KeyOrder) THEN <<>>
  ELSE LET here == {f \in o : f[1] = KeyOrder[i]}
       IN  (IF here = {} THEN <<>> ELSE <<CHOOSE f \in here : TRUE>>)
           \o FieldsFrom(o, i + 1)

stringify(o) == Str(TRUE, FieldsFrom(o, 1))

StrA    == Str(TRUE,  <<(<<"a", 1>>)>>)                 \* "{a:1}"
StrAraw == Str(FALSE, <<(<<"a", 1>>)>>)                 \* "a:1"
StrAB   == Str(TRUE,  <<(<<"a", 1>>), (<<"b", 2>>)>>)   \* "{a:1,b:2}"
PatStrs == {StrA, StrAraw, StrAB}

MsgA  == {<<"a", 1>>}
MsgAB == {<<"a", 1>>, <<"b", 2>>}
MsgC  == {<<"c", 3>>}
Msgs  == {MsgA, MsgAB, MsgC}

----------------------------------------------------------------------------
(* bloomrun with indexing 'depth', as the code uses it: add appends an     *)
(* entry (the payload defaults to the pattern), remove drops every entry   *)
(* of that pattern, lookup returns the payload of the matching entry with  *)
(* the most keys, the earliest added among equals, or null.                *)

BloomAdd(index, pattern, payload) ==
  Append(index, [pattern |-> pattern, payload |-> payload])

BloomRemove(index, pattern) ==
  SelectSeq(index, LAMBDA e : e.pattern # pattern)

Matches(pattern, msg) == pattern \subseteq msg

BloomLookup(index, msg) ==
  LET hits == {i \in DOMAIN index : Matches(index[i].pattern, msg)}
  IN  IF hits = {} THEN 0
      ELSE CHOOSE i \in hits :
             \A j \in hits :
               \/ Cardinality(index[i].pattern) > Cardinality(index[j].pattern)
               \/ /\ Cardinality(index[i].pattern) = Cardinality(index[j].pattern)
                  /\ i <= j

BloomHas(index, pattern) == \E i \in DOMAIN index : index[i].pattern = pattern

----------------------------------------------------------------------------
(* The directory: patterns[p][s] is undefined (has = FALSE) or a Map       *)
(* host -> address in insertion order.                                     *)

NoMap == [has |-> FALSE, map |-> <<>>]

(* a Map that never reports a host as present *)
MapHas_Never(m, host) == FALSE

MapHas(m, host) == \E i \in DOMAIN m : m[i][1] = host
MapDelete(m, host) == SelectSeq(m, LAMBDA e : e[1] # host)
MapSet(m, host, value) == Append(m, <<host, value>>)
hostsFor(p, s) == patterns[p][s].map

(* keydx.exec(key), line 11 and 182: a key is the sequence of its path     *)
(* segments below /services; the expression matches when there are at      *)
(* least two, and captures the first two.                                  *)
keydx(key) ==
  IF Len(key) >= 2
  THEN [match |-> TRUE, pattern |-> key[1], host |-> key[2]]
  ELSE [match |-> FALSE]

Key(s, h) == <<s, h>>
BadKeys == {<<>>, <<StrA>>}

NoErr == "none"

(* The etcd watcher's 'change' handler, lines 181-208.  Yields the new     *)
(* directory and global index of p and the error the handler raised.       *)
change(p, action, key, value) ==
  LET m == keydx(key)
      same == [pat |-> patterns[p], glo |-> gloBloom[p], err |-> NoErr]
  IN
  IF ~m.match
  THEN \* line 182: destructuring null
       [same EXCEPT !.err = "TypeError: null is not iterable"]
  ELSE
    LET s == m.pattern
        h == m.host
        cur == patterns[p][s]
    IN
    IF action \in {"expire", "delete"}
    THEN IF cur.has /\ MapHas(cur.map, h)
         THEN LET left == MapDelete(cur.map, h)
              IN  IF Len(left) = 0
                  THEN \* line 192, then line 193: patterns is a plain object
                       [pat |-> [patterns[p] EXCEPT ![s] = [has |-> TRUE, map |-> left]],
                        glo |-> BloomRemove(gloBloom[p], sonic(s)),
                        err |-> "TypeError: patterns.delete is not a function"]
                  ELSE [pat |-> [patterns[p] EXCEPT ![s] = [has |-> TRUE, map |-> left]],
                        glo |-> gloBloom[p],
                        err |-> NoErr]
         ELSE same
    ELSE IF action = "set"
    THEN IF ~MapHas(cur.map, h)
         THEN [pat |-> [patterns[p] EXCEPT ![s] = [has |-> TRUE, map |-> MapSet(cur.map, h, value)]],
               glo |-> BloomAdd(gloBloom[p], sonic(s), sonic(s)),
               err |-> NoErr]
         ELSE [pat |-> [patterns[p] EXCEPT ![s] = [has |-> TRUE, map |-> cur.map]],
               glo |-> gloBloom[p],
               err |-> NoErr]
    ELSE same

----------------------------------------------------------------------------
(* Frames: pack.pack([meta, msg]).  meta = {requestId, returnUrl, mode,    *)
(* error}; mode is absent ("req") on a request.  A message is an object.   *)

ForeignUrl == "tcp://hostX:1"
AllAddrs == Addrs \cup {ForeignUrl}

Result == {<<"r", 1>>}               \* what a handler answers
Undefined == {<<"undefined", 0>>}    \* the value undefined, as msg
EmptyObj == {}                       \* the {} sent beside an error
Falsy == "falsy"                     \* a rejection value that is falsy (undefined, 0, "")
Truthy(err) == err \notin {NoErr, Falsy}

Frame(mode, requestId, returnUrl, error, msg) ==
  [mode |-> mode, requestId |-> requestId, returnUrl |-> returnUrl,
   error |-> error, msg |-> msg]

NoSock == [open |-> FALSE, how |-> "none", up |-> FALSE]
NoReq == [has |-> FALSE, expiresOn |-> 0]
NoFrame == Frame("none", 0, "", NoErr, {})
NoEv == [action |-> "none", key |-> <<>>, value |-> ""]

Last(op, p, ev, frame, err, sent) ==
  [op |-> op, p |-> p, ev |-> ev, frame |-> frame, err |-> err, sent |-> sent]

(* What the transport does with a frame sent on the pooled socket for      *)
(* addr: a connected push socket delivers to the pull socket bound at      *)
(* addr; a push socket that was bound (or failed to bind) has no peer.     *)
Deliverable(socks, addr) ==
  /\ socks[addr].how = "connect"
  /\ \E q \in Proc : url(q) = addr

Owner(addr) == CHOOSE q \in Proc : url(q) = addr

RECURSIVE Post(_, _, _, _, _)
Post(inb, stk, p, socks, out) ==
  IF out = <<>> THEN [inbox |-> inb, stuck |-> stk]
  ELSE LET o == Head(out)
       IN  IF Deliverable(socks, o.addr)
           THEN Post([inb EXCEPT ![Owner(o.addr)] = Append(@, o.frame)],
                     stk, p, socks, Tail(out))
           ELSE Post(inb, [stk EXCEPT ![p] = @ \cup {o}], p, socks, Tail(out))

----------------------------------------------------------------------------
(* instance.send, lines 50-79.  sendOk: whether remote.send (line 74)      *)
(* returns; when it throws, the promise executor's throw rejects the       *)
(* promise.                                                                *)

Unroutable == "unroutable"

Route(p, msg) ==
  LET i == BloomLookup(gloBloom[p], msg)
  IN  IF i = 0 THEN [ok |-> FALSE, why |-> "no pattern"]
      ELSE LET patternStr == stringify(gloBloom[p][i].payload)
           IN  IF ~patterns[p][patternStr].has
               THEN [ok |-> FALSE, why |-> "no directory entry"]       \* line 57
               ELSE IF Len(patterns[p][patternStr].map) = 0
               THEN [ok |-> FALSE, why |-> "no host"]                  \* line 76
               ELSE [ok |-> TRUE, address |-> patterns[p][patternStr].map[1][2]]

Expiry(t) == t + TIMEOUT

(* a send that made its table entry before it looked for a route *)
Register_Unchecked(table, routed, requestId, t) ==
  IF requestId \in DOMAIN table
  THEN [table EXCEPT ![requestId] = [has |-> TRUE, expiresOn |-> Expiry(t)]]
  ELSE table

(* lines 71-73: the entry is made once a remote socket was found *)
Register(table, routed, requestId, t) ==
  IF routed
  THEN [table EXCEPT ![requestId] = [has |-> TRUE, expiresOn |-> Expiry(t)]]
  ELSE table

(* lines 63-67: the pooled socket for address, connected on first use *)
Connect(socks, address) ==
  IF socks[address].open THEN socks
  ELSE [socks EXCEPT ![address] = [open |-> TRUE, how |-> "connect", up |-> TRUE]]

Send(p, msg, sendOk) ==
  LET r == Route(p, msg)
      requestId == Len(issued) + 1      \* genId(), line 52
  IN
  IF ~r.ok
  THEN /\ requests' = [requests EXCEPT ![p] = Register(@, FALSE, requestId, now)]
       /\ last' = Last("send", p, NoEv, Frame("req", 0, url(p), NoErr, msg), Unroutable, <<>>)
       /\ UNCHANGED <<handlers, bloom, gloBloom, patterns, sockets, inbox,
                      stuck, pendingH, settle, issued, watchq, pub, now, foreign>>
  ELSE
    LET address == r.address
        socks == Connect(sockets[p], address)
        frame == Frame("req", requestId, url(p), NoErr, msg)
        out == IF sendOk THEN <<[addr |-> address, frame |-> frame]>> ELSE <<>>
        posted == Post(inbox, stuck, p, socks, out)
    IN
    /\ Len(issued) < MaxReq
    /\ Deliverable(socks, address) => Len(inbox[Owner(address)]) < MaxInbox
    /\ sockets' = [sockets EXCEPT ![p] = socks]
    /\ requests' = [requests EXCEPT ![p] = Register(@, TRUE, requestId, now)]
    /\ issued' = Append(issued, [owner |-> p, msg |-> msg, at |-> now, dest |-> address])
    /\ inbox' = posted.inbox
    /\ stuck' = posted.stuck
    /\ settle' = IF sendOk THEN settle
                 ELSE \* line 74 throws inside the executor: the promise is rejected
                      [settle EXCEPT ![requestId] =
                         Append(@, [by |-> "senderror", how |-> "reject", at |-> now,
                                    val |-> {}, err |-> "send failed"])]
    /\ last' = Last("send", p, NoEv, frame, IF sendOk THEN NoErr ELSE "send failed", out)
    /\ UNCHANGED <<handlers, bloom, gloBloom, patterns, pendingH, watchq, pub, now, foreign>>

----------------------------------------------------------------------------
(* reply(err, msg), lines 102-121, run by p for the request with meta.     *)
(* bindOk: whether bindSync (line 106) returns.  Yields the pool, the      *)
(* frames sent and what reply raised.                                      *)

(* a reply that makes and binds a socket whatever the pool holds *)
reply_Rebind(p, socks, meta, err, msg, bindOk) ==
  LET socks1 == [socks EXCEPT ![meta.returnUrl] =
                   [open |-> TRUE, how |-> "bind", up |-> bindOk]]
      frame == IF Truthy(err)
               THEN Frame("reply", meta.requestId, url(p), err, EmptyObj)
               ELSE Frame("reply", meta.requestId, url(p), NoErr, msg)
  IN  IF ~bindOk
      THEN [socks |-> socks1, out |-> <<>>, raised |-> "bind failed"]
      ELSE [socks |-> socks1,
            out |-> <<[addr |-> meta.returnUrl, frame |-> frame]>>,
            raised |-> NoErr]

reply(p, socks, meta, err, msg, bindOk) ==
  LET fresh == ~socks[meta.returnUrl].open
      socks1 == IF fresh
                THEN [socks EXCEPT ![meta.returnUrl] =
                        [open |-> TRUE, how |-> "bind", up |-> bindOk]]
                ELSE socks
      frame == IF Truthy(err)
               THEN Frame("reply", meta.requestId, url(p), err, EmptyObj)
               ELSE Frame("reply", meta.requestId, url(p), NoErr, msg)
  IN  IF fresh /\ ~bindOk
      THEN [socks |-> socks1, out |-> <<>>, raised |-> "bind failed"]
      ELSE [socks |-> socks1,
            out |-> <<[addr |-> meta.returnUrl, frame |-> frame]>>,
            raised |-> NoErr]

(* .then($ => reply(null, $)).catch($ => reply($)), lines 129-130, for a   *)
(* handler promise that is fulfilled with value, or rejected with err.     *)
thenCatch(p, socks, meta, fulfilled, value, err, bindOk) ==
  IF fulfilled
  THEN LET r1 == reply(p, socks, meta, NoErr, value, bindOk)
       IN  IF r1.raised = NoErr THEN r1
           ELSE reply(p, r1.socks, meta, r1.raised, Undefined, bindOk)
  ELSE reply(p, socks, meta, err, Undefined, bindOk)

----------------------------------------------------------------------------
(* sock.on('message'), lines 81-136: p takes the next frame off its pull   *)
(* socket.  how: what the matched handler does when called: "return" a     *)
(* value, "throw", or return a "promise" that is still pending.            *)

HandlerDoes == {"return", "throw", "promise"}

Called(by, how, val, err) ==
  [by |-> by, how |-> how, at |-> now, val |-> val, err |-> err]

(* requests is a plain object (line 43): for a key that Object.prototype   *)
(* defines ("constructor", "toString", ...) requests[key] is a function,   *)
(* which is truthy and has neither resolve nor reject.  Inherited stands   *)
(* for such a key; genId never yields one.                                 *)
Inherited == -1

NotAFunction == "TypeError: resolve is not a function"

(* a table that hands out its oldest pending entry, whatever id is asked *)
Correlate_Oldest(p, requestId) ==
  LET pend == {id \in DOMAIN requests[p] : requests[p][id].has}
  IN  IF pend = {} THEN requestId
      ELSE CHOOSE id \in pend : \A other \in pend : id <= other

(* lines 92-93: the entry read and deleted is the one under the frame's id *)
Correlate(p, requestId) == requestId

(* line 91: requestId && requests[requestId] *)
Pending(p, requestId) ==
  requestId # 0 /\ (requestId = Inherited \/ requests[p][requestId].has)

OnMessage(p, how, bindOk) ==
  /\ inbox[p] # <<>>
  /\ LET f == Head(inbox[p])
         rest == [inbox EXCEPT ![p] = Tail(@)]
     IN
     IF f.mode = "reply"
     THEN \* lines 88-100
          /\ how = "return" /\ bindOk
          /\ IF Pending(p, f.requestId) /\ f.requestId # Inherited
             THEN /\ requests' = [requests EXCEPT ![p][Correlate(p, f.requestId)] = NoReq]
                  /\ settle' = [settle EXCEPT ![Correlate(p, f.requestId)] =
                        Append(@, IF Truthy(f.error)
                                  THEN Called("reply", "reject", {}, f.error)
                                  ELSE Called("reply", "resolve", f.msg, NoErr))]
             ELSE UNCHANGED <<requests, settle>>
          /\ inbox' = rest
          \* lines 92-98 on an inherited key: resolve and reject are undefined,
          \* the delete does nothing and the call raises
          /\ last' = Last("message", p, NoEv, f,
                          IF Pending(p, f.requestId) /\ f.requestId = Inherited
                          THEN NotAFunction ELSE NoErr, <<>>)
          /\ UNCHANGED <<sockets, stuck, pendingH>>
     ELSE \* lines 101-135
          LET h == BloomLookup(bloom[p], f.msg) IN
          IF h = 0
          THEN \* line 133: reply runs inside the callback
               LET r == reply(p, sockets[p], f, "no handler", Undefined, bindOk)
                   posted == Post(rest, stuck, p, r.socks, r.out)
               IN  /\ how = "return"
                   /\ sockets' = [sockets EXCEPT ![p] = r.socks]
                   /\ inbox' = posted.inbox
                   /\ stuck' = posted.stuck
                   /\ last' = Last("message", p, NoEv, f, r.raised, r.out)
                   /\ UNCHANGED <<requests, settle, pendingH>>
          ELSE IF how = "throw"
          THEN \* line 128: handler.call throws before any promise exists
               /\ bindOk
               /\ inbox' = rest
               /\ last' = Last("message", p, NoEv, f, "handler threw", <<>>)
               /\ UNCHANGED <<requests, settle, sockets, stuck, pendingH>>
          ELSE IF how = "promise"
          THEN /\ bindOk
               /\ inbox' = rest
               /\ pendingH' = [pendingH EXCEPT ![p] = @ \cup {f}]
               /\ last' = Last("message", p, NoEv, f, NoErr, <<>>)
               /\ UNCHANGED <<requests, settle, sockets, stuck>>
          ELSE \* the handler returned a value: the chain runs as microtasks
               LET r == thenCatch(p, sockets[p], f, TRUE, Result, NoErr, bindOk)
                   posted == Post(rest, stuck, p, r.socks, r.out)
               IN  /\ sockets' = [sockets EXCEPT ![p] = r.socks]
                   /\ inbox' = posted.inbox
                   /\ stuck' = posted.stuck
                   /\ last' = Last("message", p, NoEv, f, NoErr, r.out)
                   /\ UNCHANGED <<requests, settle, pendingH>>
  /\ UNCHANGED <<handlers, bloom, gloBloom, patterns, issued, watchq, pub, now, foreign>>

(* The promise a handler returned settles: fulfilled with Result, or       *)
(* rejected with err (an Error, or a falsy value).  Lines 127-130.         *)
HandlerDone(p, f, fulfilled, err, bindOk) ==
  /\ f \in pendingH[p]
  /\ LET r == thenCatch(p, sockets[p], f, fulfilled, Result, err, bindOk)
         posted == Post(inbox, stuck, p, r.socks, r.out)
     IN  /\ sockets' = [sockets EXCEPT ![p] = r.socks]
         /\ inbox' = posted.inbox
         /\ stuck' = posted.stuck
         /\ last' = Last("handlerDone", p, NoEv, f,
                         IF fulfilled THEN NoErr ELSE err, r.out)
  /\ pendingH' = [pendingH EXCEPT ![p] = @ \ {f}]
  /\ UNCHANGED <<handlers, bloom, gloBloom, patterns, requests, settle, issued,
                 watchq, pub, now, foreign>>

----------------------------------------------------------------------------
(* fireRequestTimeouts, lines 165-177 *)

Expired(e, t) == e < t

fireRequestTimeouts(p) ==
  LET gone == {id \in DOMAIN requests[p] :
                 requests[p][id].has /\ Expired(requests[p][id].expiresOn, now)}
  IN  /\ requests' = [requests EXCEPT ![p] =
                        [id \in DOMAIN @ |-> IF id \in gone THEN NoReq ELSE @[id]]]
      /\ settle' = [id \in DOMAIN settle |->
                      IF id \in gone
                      THEN Append(settle[id], Called("timeout", "reject", {}, "timeout"))
                      ELSE settle[id]]
      /\ last' = IF gone = {} THEN last ELSE Last("sweep", p, NoEv, NoFrame, NoErr, <<>>)
      /\ UNCHANGED <<handlers, bloom, gloBloom, patterns, sockets, inbox, stuck,
                     pendingH, issued, watchq, pub, now, foreign>>

(* Time passes, to one of the instants at which the model lets callbacks  *)
(* run: up to MaxLate ms after the start, and up to MaxLate ms after one   *)
(* TIMEOUT later.  The sweep reruns every SWEEP ms, so an entry is swept   *)
(* at the latest SWEEP ms after it expired.                                *)
Instants == {a * TIMEOUT + b : a \in 0..1, b \in 0..MaxLate}

Tick(t) ==
  /\ t > now
  /\ \A p \in Proc : \A id \in DOMAIN requests[p] :
       requests[p][id].has => t <= requests[p][id].expiresOn + SWEEP
  /\ now' = t
  /\ UNCHANGED <<handlers, bloom, gloBloom, patterns, requests, sockets, inbox,
                 stuck, pendingH, settle, issued, watchq, pub, foreign, last>>

----------------------------------------------------------------------------
(* The watcher's 'change' callback runs for an event, lines 180-208 *)

Event(action, key, value) == [action |-> action, key |-> key, value |-> value]

Change(p, ev) ==
  LET c == change(p, ev.action, ev.key, ev.value)
  IN  /\ patterns' = [patterns EXCEPT ![p] = c.pat]
      /\ gloBloom' = [gloBloom EXCEPT ![p] = c.glo]
      /\ last' = Last("watch", p, ev, NoFrame, c.err, <<>>)

(* an event of the store's feed, whatever wrote the key *)
Keys == {Key(s, h) : s \in {StrA, StrAraw}, h \in Hosts}
          \cup {Key(StrAB, "B")} \cup BadKeys
Events == {Event("set", key, value) : key \in Keys, value \in Addrs}
            \cup {Event(action, key, "") : action \in {"delete", "expire"}, key \in Keys}

WatchAny(p, ev) ==
  /\ Change(p, ev)
  /\ Len(gloBloom'[p]) <= MaxIndex
  /\ UNCHANGED <<handlers, bloom, requests, sockets, inbox, stuck, pendingH,
                 settle, issued, watchq, pub, now, foreign>>

(* an event that a publish cycle of one of the instances caused *)
WatchDeliver(p) ==
  /\ watchq[p] # <<>>
  /\ Change(p, Head(watchq[p]))
  /\ watchq' = [watchq EXCEPT ![p] = Tail(@)]
  /\ UNCHANGED <<handlers, bloom, requests, sockets, inbox, stuck, pendingH,
                 settle, issued, pub, now, foreign>>

----------------------------------------------------------------------------
(* updateServiceDirectory, lines 140-162.  A cycle starts (line 141: one   *)
(* etcd.set per handler) and ends when every callback has run; oks are the *)
(* handlers whose set succeeded.                                           *)

PERIOD == 5000     \* lines 157, 160
HasPostInit(p) == p = "A"

RECURSIVE SetEvents(_, _, _)
SetEvents(p, oks, i) ==
  IF i > Len(handlers[p]) THEN <<>>
  ELSE (IF i \in oks
        THEN <<Event("set", Key(handlers[p][i], p), url(p))>>
        ELSE <<>>) \o SetEvents(p, oks, i + 1)

(* a first then() that also ran on every later successful cycle *)
SchedulesPostInit_Every(called, all) == all

(* lines 150-155: the first then() runs when every set succeeded, and      *)
(* schedules postInit unless calledUpdateYet                               *)
SchedulesPostInit(called, all) == all /\ ~called

(* a chain whose catch() did not schedule the retry *)
Rescheduled_NoRetry(all) == IF all THEN 1 ELSE 0

(* lines 157-161: the setTimeout(updateServiceDirectory, 5000) calls of    *)
(* one chain: the second then() runs when the chain is fulfilled, the      *)
(* catch() when Promise.all rejected (neither then() throws)               *)
Rescheduled(all) == (IF all THEN 1 ELSE 0) + (IF ~all THEN 1 ELSE 0)

PublishDone(p, oks) ==
  /\ pub[p].state = "inflight"
  /\ oks \subseteq 1..pub[p].batch
  /\ LET all == oks = 1..pub[p].batch
         first == SchedulesPostInit(pub[p].called, all)
     IN  pub' = [pub EXCEPT ![p] =
                   [state |-> "timer",
                    cycles |-> @.cycles,
                    called |-> @.called \/ all,
                    postInit |-> IF first /\ HasPostInit(p) THEN @.postInit + 1
                                 ELSE @.postInit,
                    due |-> now + PERIOD,
                    batch |-> 0,      \* the cycle and its closures are over
                    timers |-> @.timers + Rescheduled(all)]]
  /\ watchq' = [q \in Proc |-> watchq[q] \o SetEvents(p, oks, 1)]
  /\ last' = Last("publishDone", p, NoEv, NoFrame, NoErr, <<>>)
  /\ UNCHANGED <<handlers, bloom, gloBloom, patterns, requests, sockets, inbox,
                 stuck, pendingH, settle, issued, now, foreign>>

(* a timer of lines 157/160 fires: updateServiceDirectory maps the         *)
(* handlers registered so far (line 141)                                   *)
PublishTimer(p) ==
  /\ pub[p].state = "timer"
  /\ pub[p].timers > 0
  /\ now >= pub[p].due
  /\ pub[p].cycles < MaxCycles
  /\ pub' = [pub EXCEPT ![p].state = "inflight", ![p].cycles = @ + 1,
                        ![p].timers = @ - 1, ![p].batch = Len(handlers[p])]
  /\ last' = Last("publishTimer", p, NoEv, NoFrame, NoErr, <<>>)
  /\ UNCHANGED <<handlers, bloom, gloBloom, patterns, requests, sockets, inbox,
                 stuck, pendingH, settle, issued, watchq, now, foreign>>

(* instance.on(pattern, handler) called after main() has run, lines        *)
(* 226-232: the handler is pushed on instance.handlers; the local index    *)
(* was filled once, by main (lines 46-48)                                  *)
on(p, s) ==
  /\ Len(handlers[p]) < MaxHandlers
  /\ handlers' = [handlers EXCEPT ![p] = Append(@, stringify(sonic(s)))]
  /\ last' = Last("on", p, NoEv, NoFrame, NoErr, <<>>)
  /\ UNCHANGED <<bloom, gloBloom, patterns, requests, sockets, inbox, stuck,
                 pendingH, settle, issued, watchq, pub, now, foreign>>

----------------------------------------------------------------------------
(* A peer outside the model pushes a frame to p's pull socket: a request, *)
(* or a reply: a duplicate or late reply to a request of p, or one with an *)
(* id p never issued (no id, or a key every object inherits).              *)

ForeignFrames(p) ==
  {Frame("reply", id, ForeignUrl, NoErr, Result) :
      id \in {0, Inherited} \cup {i \in DOMAIN issued : issued[i].owner = p}}
  \cup {Frame("reply", id, ForeignUrl, "E", EmptyObj) :
           id \in {0} \cup {i \in DOMAIN issued : issued[i].owner = p}}
  \cup {Frame("req", 0, ForeignUrl, NoErr, msg) : msg \in {MsgA, MsgC}}

ForeignFrame(p, f) ==
  /\ foreign < MaxForeign
  /\ Len(inbox[p]) < MaxInbox
  /\ inbox' = [inbox EXCEPT ![p] = Append(@, f)]
  /\ foreign' = foreign + 1
  /\ UNCHANGED <<handlers, bloom, gloBloom, patterns, requests, sockets, stuck,
                 pendingH, settle, issued, watchq, pub, now, last>>

----------------------------------------------------------------------------
(* The state when main() returns: the handlers registered by the           *)
(* initializer are in the local index (lines 46-48), the first sweep has   *)
(* run (line 210) and the first publish cycle is in flight (line 211).     *)

InitHandlers == [p \in Proc |-> IF p = "A" THEN <<StrA>> ELSE <<>>]

RECURSIVE AddAll(_, _)
AddAll(index, hs) ==
  IF hs = <<>> THEN index
  ELSE AddAll(BloomAdd(index, sonic(Head(hs)), Head(hs)), Tail(hs))

Init ==
  /\ handlers = InitHandlers
  /\ bloom = [p \in Proc |-> AddAll(<<>>, InitHandlers[p])]
  /\ gloBloom = [p \in Proc |-> <<>>]
  /\ patterns = [p \in Proc |-> [s \in PatStrs |-> NoMap]]
  /\ requests = [p \in Proc |-> [id \in 1..MaxReq |-> NoReq]]
  /\ sockets = [p \in Proc |-> [a \in AllAddrs |-> NoSock]]
  /\ inbox = [p \in Proc |-> <<>>]
  /\ stuck = [p \in Proc |-> {}]
  /\ pendingH = [p \in Proc |-> {}]
  /\ settle = [id \in 1..MaxReq |-> <<>>]
  /\ issued = <<>>
  /\ watchq = [p \in Proc |-> <<>>]
  /\ pub = [p \in Proc |-> [state |-> "inflight", cycles |-> 1, called |-> FALSE,
                            postInit |-> 0, due |-> 0,
                            batch |-> Len(InitHandlers[p]), timers |-> 0]]
  /\ now = 0
  /\ foreign = 0
  /\ last = Last("main", "A", NoEv, NoFrame, NoErr, <<>>)

Errors == {"E", Falsy}
Replies(p) == {f \in ForeignFrames(p) : f.mode = "reply"}

(* The round trip: both instances publish, watch, send, receive and run    *)
(* handlers.                                                               *)
Next ==
  \/ \E p \in Proc : PublishDone(p, 1..pub[p].batch)
  \/ \E p \in Proc : WatchDeliver(p)
  \/ \E p \in Proc : Send(p, MsgA, TRUE)
  \/ \E p \in Proc, how \in HandlerDoes, bindOk \in BOOLEAN : OnMessage(p, how, bindOk)
  \/ \E p \in Proc : \E f \in pendingH[p], fulfilled \in BOOLEAN, err \in Errors,
        bindOk \in BOOLEAN : HandlerDone(p, f, fulfilled, err, bindOk)
  \/ \E p \in Proc : fireRequestTimeouts(p)
  \/ \E t \in Instants : Tick(t)

Spec == Init /\ [][Next]_vars

(* The request table of B: A is in B's directory; B sends, its sends may   *)
(* fail, replies reach it from any peer in any order, time passes and the  *)
(* sweep runs.                                                             *)
NextReq ==
  \/ PublishDone("A", 1..pub["A"].batch)
  \/ WatchDeliver("B")
  \/ \E msg \in Msgs, sendOk \in BOOLEAN : Send("B", msg, sendOk)
  \/ \E f \in Replies("B") : ForeignFrame("B", f)
  \/ OnMessage("B", "return", TRUE)
  \/ fireRequestTimeouts("B")
  \/ \E t \in Instants : Tick(t)

SpecReq == Init /\ [][NextReq]_vars

(* The directory of A under an arbitrary watch feed *)
NextDir ==
  \E ev \in Events : WatchAny("A", ev)

SpecDir == Init /\ [][NextDir]_vars

(* Routing: sends of A under a watch feed that adds and removes hosts *)
SendEvents ==
  {Event("set", Key(StrA, "A"), url("A")), Event("set", Key(StrAraw, "B"), url("B")),
   Event("delete", Key(StrA, "A"), ""), Event("expire", Key(StrAraw, "B"), "")}

NextSend ==
  \/ \E ev \in SendEvents : WatchAny("A", ev)
  \/ \E msg \in Msgs, sendOk \in BOOLEAN : Send("A", msg, sendOk)

SpecSend == Init /\ [][NextSend]_vars

(* The publisher of A: its cycles end with any subset of their upserts     *)
(* succeeded, its timers fire, handlers are registered after startup, the  *)
(* watch feed is delivered.  Publishers of different instances share       *)
(* nothing but the store.                                                  *)
NextPub ==
  \/ \E oks \in SUBSET (1..MaxHandlers) : PublishDone("A", oks)
  \/ PublishTimer("A")
  \/ \E s \in {StrAraw, StrAB} : on("A", s)
  \/ WatchDeliver("A")
  \/ \E t \in Instants : Tick(t)

SpecPub == Init /\ [][NextPub]_vars

----------------------------------------------------------------------------
(* Properties of the directory (SpecDir) *)

Objects == {sonic(s) : s \in PatStrs}
Live(p, s) == Len(hostsFor(p, s)) > 0
LiveFor(p, o) == \E s \in PatStrs : sonic(s) = o /\ Live(p, s)
Listed(m, h, a) == \E i \in DOMAIN m : m[i] = <<h, a>>
WellFormed(ev) == keydx(ev.key).match

(* C1: in every reachable state a pattern is in the global index if and    *)
(* only if the directory holds at least one live host for it; a pattern    *)
(* with no host left is absent from the index.                             *)
C1_IndexIffLiveHost ==
  \A p \in Proc : \A o \in Objects : BloomHas(gloBloom[p], o) <=> LiveFor(p, o)

(* the half of C1 that the code keeps: what is in the index has a live host *)
C1_IndexedIsLive ==
  \A p \in Proc : \A o \in Objects : BloomHas(gloBloom[p], o) => LiveFor(p, o)

(* a message that, among the patterns with a live host, only s matches *)
OnlyServedBy(p, s, msg) ==
  /\ Matches(sonic(s), msg)
  /\ \A s2 \in PatStrs \ {s} : Live(p, s2) => ~Matches(sonic(s2), msg)

(* C6: right after a "set" event for (P, H, A), whatever the directory     *)
(* held, hostsFor(P) contains (H, A); right after the matching "delete" or *)
(* "expire" event it no longer contains H; and once hostsFor(P) is empty   *)
(* the global index matches no message that only P could serve.            *)
C6_DirectoryConvergence ==
  (last.op = "watch" /\ WellFormed(last.ev)) =>
    LET s == keydx(last.ev.key).pattern
        h == keydx(last.ev.key).host
        p == last.p
    IN  /\ last.ev.action = "set" => Listed(hostsFor(p, s), h, last.ev.value)
        /\ last.ev.action \in {"delete", "expire"} => ~MapHas(hostsFor(p, s), h)
        /\ ~Live(p, s) =>
             \A msg \in Msgs : OnlyServedBy(p, s, msg) => BloomLookup(gloBloom[p], msg) = 0

(* C6 without the refresh of a listed host's address *)
C6_SetListsHost ==
  (last.op = "watch" /\ WellFormed(last.ev)) =>
    LET s == keydx(last.ev.key).pattern
        h == keydx(last.ev.key).host
        p == last.p
    IN  /\ last.ev.action = "set" => MapHas(hostsFor(p, s), h)
        /\ last.ev.action \in {"delete", "expire"} => ~MapHas(hostsFor(p, s), h)
        /\ ~Live(p, s) =>
             \A msg \in Msgs : OnlyServedBy(p, s, msg) => BloomLookup(gloBloom[p], msg) = 0

(* C10: a watch event whose key lacks the /services/<pattern>/<host> shape *)
(* is ignored: the handler raises nothing and leaves the directory, the    *)
(* global index, the request table and the connection pool as they were.   *)
C10_MalformedKeyIgnored ==
  [][(last'.op = "watch" /\ ~WellFormed(last'.ev)) =>
       /\ last'.err = NoErr
       /\ UNCHANGED <<patterns, gloBloom, requests, sockets>>]_vars

(* the half of C10 that the code keeps: the state is left as it was *)
C10_MalformedKeyNoEffect ==
  [][(last'.op = "watch" /\ ~WellFormed(last'.ev)) =>
       UNCHANGED <<patterns, gloBloom, requests, sockets>>]_vars

----------------------------------------------------------------------------
(* Properties of the request table (SpecReq) *)

InTable(p, id) == id \in DOMAIN requests[p] /\ requests[p][id].has
Deadline(id) == issued[id].at + TIMEOUT
CalledBy(id, by) == {i \in DOMAIN settle[id] : settle[id][i].by = by}

(* C2: for every request that send() registered, exactly one of resolved   *)
(* by a reply, rejected by timeout, rejected by send error occurs, and its *)
(* continuation is fired exactly once: no request has had more than one    *)
(* continuation call, and one that has left the table has had one.         *)
C2_SettledExactlyOnce ==
  \A id \in DOMAIN issued :
    /\ Len(settle[id]) <= 1
    /\ ~InTable(issued[id].owner, id) => Len(settle[id]) = 1

(* C3: a request with no reply by its deadline (issue time + TIMEOUT) is   *)
(* rejected by the sweep once, and a reply that is processed after the     *)
(* deadline never resolves or rejects it, wherever it falls relative to    *)
(* the sweep.                                                              *)
C3_LateReplyNeverSettles ==
  \A id \in DOMAIN issued :
    /\ Cardinality(CalledBy(id, "timeout")) <= 1
    /\ \A i \in CalledBy(id, "reply") : settle[id][i].at <= Deadline(id)

(* C4: a reply frame whose request id is not in the request table is       *)
(* dropped: no continuation is called, nothing is sent or raised, and the  *)
(* request table, the pool, the directory and both indexes stay as they    *)
(* were.                                                                   *)
C4_UnknownReplyDropped ==
  [][\A p \in Proc :
       (/\ inbox[p] # <<>>
        /\ Head(inbox[p]).mode = "reply"
        /\ ~InTable(p, Head(inbox[p]).requestId)
        /\ last'.op = "message" /\ last'.p = p
        /\ inbox'[p] = Tail(inbox[p]))
       => /\ UNCHANGED <<requests, settle, sockets, stuck, patterns, gloBloom, bloom>>
          /\ last'.sent = <<>>
          /\ last'.err = NoErr]_vars

----------------------------------------------------------------------------
(* Properties of routing (SpecSend) *)

NoRoute(p, msg) ==
  LET i == BloomLookup(gloBloom[p], msg)
  IN  i = 0 \/ ~Live(p, stringify(gloBloom[p][i].pattern))

(* C5: send(msg) for a message that matches no pattern of the global index, *)
(* or whose matched pattern has no host in the directory, fails at once as *)
(* unroutable; no pending request is added, no socket is created and       *)
(* nothing is sent.                                                        *)
C5_UnroutableSendHasNoEffect ==
  [][(/\ last'.op = "send"
      /\ last' # last
      /\ NoRoute(last'.p, last'.frame.msg))
     => /\ last'.err = Unroutable
        /\ last'.sent = <<>>
        /\ UNCHANGED <<requests, sockets, inbox, stuck, issued, settle>>]_vars

(* an unroutable send of a message that the index does match *)
C5_Witness ==
  /\ last.op = "send"
  /\ last.err = Unroutable
  /\ BloomLookup(gloBloom[last.p], last.frame.msg) # 0

----------------------------------------------------------------------------
(* Properties of the round trip (Spec) *)

IsAnswer(f, id) ==
  /\ f.mode = "reply"
  /\ f.requestId = id
  /\ f.msg = Result \/ f.error = "bind failed"

(* the handler of request id ran to completion with Result and the reply   *)
(* is on its way                                                           *)
Answered(id) ==
  \E p \in Proc :
    \/ \E o \in stuck[p] : IsAnswer(o.frame, id)
    \/ \E i \in DOMAIN inbox[p] : IsAnswer(inbox[p][i], id)

(* C7: when B sends M while its directory lists A, A's handler matches M   *)
(* and completes with R, B's future is resolved with R, once, and is not   *)
(* rejected.                                                               *)
C7_RoundTrip ==
  \A id \in DOMAIN issued :
    Answered(id) =>
      \A i \in DOMAIN settle[id] :
        settle[id][i].how = "resolve" /\ settle[id][i].val = Result

(* C8: the reply channel to a return address is obtained by connecting     *)
(* outward: no socket of the pool has been bound locally.                  *)
C8_ReplyChannelConnects ==
  \A p \in Proc : \A a \in AllAddrs :
    sockets[p][a].open => sockets[p][a].how = "connect"

(* C9: for an inbound request that a local handler matches, a handler      *)
(* failure (a throw, a rejection, a rejection with a falsy value) never    *)
(* leaves the message callback as an exception, and produces a reply with  *)
(* an error field for the same request id.                                 *)
C9_HandlerFailureReplied ==
  /\ (/\ last.op = "message"
      /\ last.frame.mode = "req"
      /\ BloomLookup(bloom[last.p], last.frame.msg) # 0)
     => last.err = NoErr
  /\ (last.op = "handlerDone" /\ last.err # NoErr)
     => \E i \in DOMAIN last.sent :
          /\ last.sent[i].frame.requestId = last.frame.requestId
          /\ Truthy(last.sent[i].frame.error)

----------------------------------------------------------------------------
(* Properties of the publisher (SpecPub) *)

(* C11: the postInit callback is scheduled at most once per process, and   *)
(* only by the end of a publish cycle whose upsert succeeded for every     *)
(* pattern of the cycle: a step that schedules it is the first to do so,   *)
(* ends a cycle of that process, and feeds the watch a set event for each  *)
(* of the cycle's patterns.                                                *)
C11_PostInitOnce ==
  [][\A p \in Proc :
       pub'[p].postInit # pub[p].postInit =>
         /\ pub[p].postInit = 0
         /\ pub'[p].postInit = 1
         /\ last'.op = "publishDone" /\ last'.p = p
         /\ watchq'[p] = watchq[p] \o SetEvents(p, 1..pub[p].batch, 1)]_vars

(* postInit was scheduled and a later cycle has ended as well *)
C11_Witness ==
  /\ pub["A"].postInit = 1
  /\ pub["A"].cycles = 2
  /\ pub["A"].state = "timer"

(* C18: the publisher never stops and never runs doubled: at any time a    *)
(* process has either one publish cycle in flight and no publish timer, or *)
(* no cycle in flight and exactly one publish timer; the step that ends a  *)
(* cycle, whether every upsert succeeded or not, sets that timer PERIOD ms *)
(* ahead.                                                                  *)
C18_OnePublisher ==
  [][\A p \in Proc :
       \/ pub'[p].state = "inflight" /\ pub'[p].timers = 0
       \/ /\ pub'[p].state = "timer" /\ pub'[p].timers = 1
          /\ (last'.op = "publishDone" /\ last'.p = p /\ last' # last)
               => pub'[p].due = now + PERIOD]_vars

(* the first cycle failed and the retry is running *)
C18_Witness ==
  /\ pub["A"].cycles = 2
  /\ pub["A"].state = "inflight"
  /\ ~pub["A"].called

(* C20: every pattern a process publishes has a handler in its local       *)
(* index: each set event that a publish cycle of host h caused, and that   *)
(* is still on its way to a watcher, names a pattern of h's local index.   *)
C20_PublishedHasHandler ==
  \A p \in Proc : \A i \in DOMAIN watchq[p] :
    LET k == keydx(watchq[p][i].key)
    IN  BloomHas(bloom[k.host], sonic(k.pattern))

----------------------------------------------------------------------------
(* More properties of the directory (SpecDir) *)

WellFormedSets == {ev \in Events : ev.action = "set" /\ WellFormed(ev)}

(* C14: re-registration is idempotent: in every reachable state, a set     *)
(* event for a (pattern, host) pair that is listed with the same address   *)
(* is processed without error and yields the directory (host set and host  *)
(* order) and the global index that were there.                            *)
C14_SetIsIdempotent ==
  \A p \in Proc : \A ev \in WellFormedSets :
    LET k == keydx(ev.key)
    IN  Listed(hostsFor(p, k.pattern), k.host, ev.value) =>
          change(p, "set", ev.key, ev.value) =
            [pat |-> patterns[p], glo |-> gloBloom[p], err |-> NoErr]

(* a set event was processed for the first of two hosts of its pattern,    *)
(* with the address it is listed under                                     *)
C14_Witness ==
  /\ last.op = "watch"
  /\ last.ev \in WellFormedSets
  /\ LET k == keydx(last.ev.key)
         m == hostsFor(last.p, k.pattern)
     IN  Len(m) = 2 /\ m[1] = <<k.host, last.ev.value>>

Entries(index, o) == {i \in DOMAIN index : index[i].pattern = o}

(* C16: the global index holds at most one entry per pattern, however many *)
(* hosts serve it.                                                         *)
C16_OneEntryPerPattern ==
  \A p \in Proc : \A o \in Objects : Cardinality(Entries(gloBloom[p], o)) <= 1

(* C19: processing a well-formed watch event raises nothing, and the       *)
(* directory keeps no entry with an empty host set.                        *)
C19_WellFormedEventNeverRaises ==
  /\ (last.op = "watch" /\ WellFormed(last.ev)) => last.err = NoErr
  /\ \A p \in Proc : \A s \in PatStrs : patterns[p][s].has => Live(p, s)

----------------------------------------------------------------------------
(* More properties of the request table (SpecReq) *)

(* p takes a reply frame off its socket in this step *)
TakesReply(p) ==
  /\ inbox[p] # <<>>
  /\ Head(inbox[p]).mode = "reply"
  /\ inbox'[p] = Tail(inbox[p])
  /\ last'.op = "message" /\ last'.p = p

(* C12: replies are correlated to pending requests by request id alone:    *)
(* when p processes a reply frame, the pending request with the frame's id *)
(* leaves the table and its continuation is called with the frame's        *)
(* message (or error), and every request with another id keeps its table   *)
(* entry and gets no call.                                                 *)
C12_CorrelatedById ==
  [][\A p \in Proc :
       TakesReply(p) =>
         LET f == Head(inbox[p])
         IN  \A id \in DOMAIN settle :
               IF id = f.requestId /\ InTable(p, id)
               THEN /\ requests'[p][id] = NoReq
                    /\ Len(settle'[id]) = Len(settle[id]) + 1
                    /\ SubSeq(settle'[id], 1, Len(settle[id])) = settle[id]
                    /\ LET c == settle'[id][Len(settle'[id])]
                       IN  /\ c.by = "reply"
                           /\ Truthy(f.error) => c.how = "reject" /\ c.err = f.error
                           /\ ~Truthy(f.error) => c.how = "resolve" /\ c.val = f.msg
               ELSE /\ settle'[id] = settle[id]
                    /\ requests'[p][id] = requests[p][id]]_vars

(* two requests were pending together and their replies, one a message and *)
(* one an error, were processed in the reverse of the order of issue       *)
C12_Witness ==
  /\ Len(issued) = 2
  /\ Len(settle[1]) = 1 /\ Len(settle[2]) = 1
  /\ settle[1][1].by = "reply" /\ settle[2][1].by = "reply"
  /\ settle[1][1].how # settle[2][1].how
  /\ last.op = "message" /\ last.frame.requestId = 1

(* C17: a pending-request entry is destroyed on settlement: every id in    *)
(* the request table belongs to a request whose continuation has not been  *)
(* called.                                                                 *)
C17_TableHoldsOnlyUnsettled ==
  \A id \in DOMAIN issued :
    InTable(issued[id].owner, id) => Len(settle[id]) = 0

----------------------------------------------------------------------------
(* Properties of the connection pool and of the receive loop (Spec) *)

(* C13: the pool holds one socket per address: a step never removes or     *)
(* replaces a socket of the pool; a socket for an address appears only in  *)
(* a send routed to that address or in a reply to that return address; and *)
(* every frame a step sends goes out on the pool's socket for its address. *)
C13_OneSocketPerAddress ==
  [][\A p \in Proc : \A a \in AllAddrs :
       /\ sockets[p][a].open => sockets'[p][a] = sockets[p][a]
       /\ (~sockets[p][a].open /\ sockets'[p][a].open) =>
            /\ last'.p = p
            /\ \/ last'.op = "send" /\ issued'[Len(issued')].dest = a
               \/ last'.op \in {"message", "handlerDone"} /\ last'.frame.returnUrl = a
       /\ (last' # last /\ last'.p = p) =>
            \A i \in DOMAIN last'.sent :
              last'.sent[i].addr = a => sockets'[p][a].open]_vars

(* A answered its own request on the socket that its send had connected *)
C13_Witness ==
  /\ last.op = "message"
  /\ last.p = "A"
  /\ last.frame.mode = "req"
  /\ last.frame.returnUrl = url("A")
  /\ last.sent # <<>>
  /\ sockets["A"][url("A")].how = "connect"

(* C15: a handler that has not completed does not block the receive loop:  *)
(* while a handler of p is pending, p can take the next frame off its      *)
(* socket; and when a pending handler completes, a reply with its          *)
(* request's id is sent to its request's return address.                   *)
C15_PendingHandlerDoesNotBlock ==
  /\ \A p \in Proc :
       (pendingH[p] # {} /\ inbox[p] # <<>>) => ENABLED OnMessage(p, "return", TRUE)
  /\ last.op = "handlerDone" =>
       \E i \in DOMAIN last.sent :
         /\ last.sent[i].addr = last.frame.returnUrl
         /\ last.sent[i].frame.mode = "reply"
         /\ last.sent[i].frame.requestId = last.frame.requestId

====
